---------------------------- MODULE Spec2Model ----------------------------
(***************************************************************************)
(* The DICOM viewer component DicomViewer3D of scanhub-ui                   *)
(* (src/scanhub-ui/src/utils/Compare.tsx) as a state machine: its React     *)
(* state and refs, the commits that run its effects in declaration order,   *)
(* the asynchronous runs the effects start (one step per await), the        *)
(* rendering engine with its viewports, and the shared tool groups.         *)
(***************************************************************************)
EXTENDS Integers, Sequences, FiniteSets, TLC

(***************************************************************************)
(* Bounds of the model.                                                     *)
(***************************************************************************)
\* number of external changes (layout, frame list, frame count, token, geometry, unmount)
MaxChanges == 3
\* largest frame count the frame-count hook reports
MaxFrames == 2
\* longest frame-reference list of the identity specification
MaxListLen == 2
\* number of volume loads that reject
MaxFailures == 1

(***************************************************************************)
(* Strings are sequences of character codes.                                *)
(***************************************************************************)
\* "wadouri:"
WADOURI == <<119, 97, 100, 111, 117, 114, 105, 58>>
\* "cornerstoneStreamingImageVolume:"
VOLUME_SCHEME == <<99, 111, 114, 110, 101, 114, 115, 116, 111, 110, 101,
                   83, 116, 114, 101, 97, 109, 105, 110, 103,
                   73, 109, 97, 103, 101, 86, 111, 108, 117, 109, 101, 58>>
\* "/s/a1.dcm", "/s/a2.dcm", "/t/b1.dcm": instance urls of two series
UrlA1 == <<47, 115, 47, 97, 49, 46, 100, 99, 109>>
UrlA2 == <<47, 115, 47, 97, 50, 46, 100, 99, 109>>
UrlB1 == <<47, 116, 47, 98, 49, 46, 100, 99, 109>>
\* "wadouri:/s/a1.dcm": an instance url that carries the scheme already
UrlA1Prefixed == WADOURI \o UrlA1
RawUrls == {UrlA1, UrlA2, UrlB1, UrlA1Prefixed}

startsWith(u, p) ==
    /\ Len(u) >= Len(p)
    /\ SubSeq(u, 1, Len(p)) = p

\* array.filter(pred) of useImageIds: drops the empty strings
RECURSIVE filterNonEmpty(_)
filterNonEmpty(urls) ==
    IF urls = <<>> THEN <<>>
    ELSE IF Len(Head(urls)) > 0
         THEN <<Head(urls)>> \o filterNonEmpty(Tail(urls))
         ELSE filterNonEmpty(Tail(urls))

\* the useMemo of useImageIds: every url gets the wadouri: scheme
useImageIds(dicomUrls) ==
    LET kept == filterNonEmpty(dicomUrls)
    IN  [i \in 1..Len(kept) |->
            IF startsWith(kept[i], WADOURI) THEN kept[i] ELSE WADOURI \o kept[i]]

\* the base64 alphabet: sextet 0..63 to its character code, 64 is the padding "="
b64char(v) ==
    IF v < 26 THEN 65 + v
    ELSE IF v < 52 THEN 97 + (v - 26)
    ELSE IF v < 62 THEN 48 + (v - 52)
    ELSE IF v = 62 THEN 43
    ELSE IF v = 63 THEN 47
    ELSE 61

Pow64(k) == IF k = 0 THEN 1 ELSE IF k = 1 THEN 64 ELSE IF k = 2 THEN 4096 ELSE 262144

\* window.btoa: three bytes become four characters, the tail is padded with "="
btoa(s) ==
    LET n == Len(s)
        groups == (n + 2) \div 3
        byte(j) == IF j <= n THEN s[j] ELSE 0
        char(k) ==
            LET g == (k - 1) \div 4
                pos == (k - 1) % 4
                v == byte(3 * g + 1) * 65536 + byte(3 * g + 2) * 256 + byte(3 * g + 3)
            IN  IF (pos = 2 /\ 3 * g + 2 > n) \/ (pos = 3 /\ 3 * g + 3 > n)
                THEN b64char(64)
                ELSE b64char((v \div Pow64(3 - pos)) % 64)
    IN  [k \in 1..(4 * groups) |-> char(k)]

\* String.prototype.slice(0, end)
slice(s, end) == SubSeq(s, 1, IF Len(s) < end THEN Len(s) ELSE end)

makeVolumeId(imageIds) == VOLUME_SCHEME \o slice(btoa(imageIds[1]), 16)


(***************************************************************************)
(* The layout registry (viewLayouts.ts).                                    *)
(***************************************************************************)
ViewLayout == {"1x1", "1x3", "2x2"}

VIEW_LAYOUTS ==
    "1x1" :> << [id |-> "single", orientation |-> "null", is3D |-> FALSE] >>
 @@ "1x3" :> << [id |-> "axial", orientation |-> "AXIAL", is3D |-> FALSE],
               [id |-> "sagittal", orientation |-> "SAGITTAL", is3D |-> FALSE],
               [id |-> "coronal", orientation |-> "CORONAL", is3D |-> FALSE] >>
 @@ "2x2" :> << [id |-> "axial", orientation |-> "AXIAL", is3D |-> FALSE],
               [id |-> "sagittal", orientation |-> "SAGITTAL", is3D |-> FALSE],
               [id |-> "coronal", orientation |-> "CORONAL", is3D |-> FALSE],
               [id |-> "volume3D", orientation |-> "null", is3D |-> TRUE] >>

ViewportId == {"single", "axial", "sagittal", "coronal", "volume3D"}

\* VIEW_LAYOUTS[layout].map(v => v.id)
layoutViewportIds(l) == [i \in 1..Len(VIEW_LAYOUTS[l]) |-> VIEW_LAYOUTS[l][i].id]

\* the elements of an array
Range(a) == {a[i] : i \in 1..Len(a)}

(***************************************************************************)
(* State.                                                                   *)
(***************************************************************************)
VARIABLES
    mounted,              \* the component is mounted
    phase,                \* "idle", or the effect the running commit is at
    dirty,                \* the effects whose dependencies changed in this commit
    committed,            \* the state values of the last render (the closures' values)
    ready,                \* useState: cornerstone is initialised
    viewportReady,        \* useState: the viewports of the layout are enabled
    layout,               \* useState: the selected layout
    imageIds,             \* useImageIds: the frame-reference list
    numberOfFrames,       \* useNumberOfFrames: the frame count
    accessToken,          \* user?.access_token
    containerRef,         \* the grid <div> is mounted (containerRef.current is not null)
    elements,             \* per pane: its <div> (cur, 0 if none) and the last one made (gen)
    initialized,          \* init.ts: the module's initialisation promise
    initRuns,             \* in-flight runs of the initialisation effect
    engineCleanup,        \* the engine effect returned its cleanup
    engines,              \* the live rendering engines
    registry,             \* the engine getRenderingEngine finds (0: none)
    engineRef,            \* engineRef.current (0: null)
    viewports,            \* per pane: the enabled viewport (type "none": not enabled)
    engineViewportIdsRef, \* engineViewportIdsRef.current
    volumeIdRef,          \* volumeIdRef.current (<<>>: null)
    reconcileRuns,        \* in-flight runs of the viewport effect
    rafQueue,             \* requested animation-frame callbacks
    loadRuns,             \* in-flight runs of the load-and-assign effect
    toolGroup,            \* the shared 2D tool group
    toolGroup3D,          \* the shared 3D tool group
    wlSync,               \* the window-level synchronizer
    seriesLoaded,         \* the volume of the current list was loaded since the list changed
    rejected,             \* the volume ids whose load rejected, in the order of the rejections
    observer,             \* useViewportResize: the ResizeObserver, its tiles and its engine
    geometry,             \* "changed": the tiles have a size the engine has not re-projected to
    sizes,                \* the rendered tiles with a width and a height: "none", "first", "all"
    calls,                \* the calls the last step made on the engine, loader and tools
    changes,              \* external changes so far
    refsA, refsB,         \* two frame-reference lists given to the identity function
    identityA, identityB  \* their identities (<<>>: not computed yet)

vars == <<mounted, phase, dirty, committed, ready, viewportReady, layout, imageIds,
          numberOfFrames, accessToken, containerRef, elements, initialized, initRuns,
          engineCleanup, engines, registry, engineRef, viewports, engineViewportIdsRef,
          volumeIdRef, reconcileRuns, rafQueue, loadRuns, toolGroup, toolGroup3D, wlSync,
          seriesLoaded, rejected, observer, geometry, sizes, calls, changes, refsA, refsB,
          identityA, identityB>>

reactVars == <<ready, viewportReady, layout, imageIds, numberOfFrames, accessToken>>
domVars == <<containerRef, elements>>
engineVars == <<engines, registry, engineRef, viewports>>
toolVars == <<toolGroup, toolGroup3D, wlSync>>
resizeVars == <<observer, geometry, sizes>>
identityVars == <<refsA, refsB, identityA, identityB>>

Effects == {"resize", "engine", "init", "reconcile", "load"}

\* the values a render closes over
Current ==
    [ready |-> ready, viewportReady |-> viewportReady, layout |-> layout,
     imageIds |-> imageIds, numberOfFrames |-> numberOfFrames,
     accessToken |-> accessToken]

\* the dependency arrays with the layout among the engine effect's dependencies
DepsEngineOnLayout(e, c) ==
    CASE e = "resize" -> <<c.layout>>
      [] e = "engine" -> <<c.ready, c.layout>>
      [] e = "init" -> <<c.accessToken>>
      [] e = "reconcile" -> <<c.ready, c.layout, c.numberOfFrames>>
      [] e = "load" -> <<c.viewportReady, c.layout, c.imageIds, c.numberOfFrames>>

\* the dependency arrays of the five effects
Deps(e, c) ==
    CASE e = "resize" -> <<c.layout>>
      [] e = "engine" -> <<c.ready>>
      [] e = "init" -> <<c.accessToken>>
      [] e = "reconcile" -> <<c.ready, c.layout, c.numberOfFrames>>
      [] e = "load" -> <<c.viewportReady, c.layout, c.imageIds, c.numberOfFrames>>

NoViewport == [type |-> "none", element |-> 0, volumeId |-> <<>>, stack |-> <<>>]
NoElement == [cur |-> 0, gen |-> 0]
NoObserver == [exists |-> FALSE, tiles |-> [p \in ViewportId |-> 0], engine |-> 0, pending |-> 0]

\* the panes of the layout whose tile has a width and a height
Sized == CASE sizes = "none" -> {}
           [] sizes = "first" -> {layoutViewportIds(layout)[1]}
           [] sizes = "all" -> Range(layoutViewportIds(layout))

\* the element of an enabled pane is in the document and has a width and a height
TileSized(p) ==
    /\ viewports[p].element # 0
    /\ viewports[p].element = elements[p].cur
    /\ p \in Sized

\* one call on the engine, the volume loader or the tools, with what held when it was made
Call(op, pane, run, id) ==
    [op |-> op, pane |-> pane, id |-> id,
     cancelled |-> run.cancelled,
     settled |-> /\ \A i \in 1..Len(reconcileRuns) : reconcileRuns[i].cancelled
                 /\ \A i \in 1..Len(rafQueue) :
                        rafQueue[i].kind = "reconcile" => rafQueue[i].cancelled
                 /\ engineViewportIdsRef = layoutViewportIds(run.layout)
                 /\ viewportReady,
     panesEnabled |-> \A p \in Range(layoutViewportIds(run.layout)) :
                          viewports[p].type # "none",
     loaded |-> seriesLoaded /\ imageIds # <<>> /\ id = makeVolumeId(imageIds),
     sized |-> IF pane \in ViewportId THEN TileSized(pane)
               ELSE \A p \in ViewportId : viewports[p].type # "none" => TileSized(p),
     during |-> mounted]

\* the frame-reference lists the data-access hook delivers
UrlLists == {<<>>, <<UrlA1, UrlA2>>, <<UrlA2>>, <<UrlB1>>}
ImageIdLists == {useImageIds(urls) : urls \in UrlLists}
Tokens == {"t1", "t2"}

\* the component after its first render, before the effects of the first commit
Mounted ==
    /\ mounted = TRUE
    /\ phase = "resizeEffect"
    /\ dirty = Effects
    /\ ready = FALSE
    /\ viewportReady = FALSE
    /\ layout = "1x1"
    /\ imageIds \in ImageIdLists
    /\ numberOfFrames = 0
    /\ accessToken = "t1"
    /\ committed = Current
    /\ containerRef = FALSE
    /\ elements = [p \in ViewportId |-> NoElement]
    /\ initialized = "null"
    /\ initRuns = <<>>
    /\ engineCleanup = FALSE
    /\ engines \in {{}, {1}}
    /\ registry = IF engines = {} THEN 0 ELSE 1
    /\ engineRef = 0
    /\ viewports = [p \in ViewportId |-> NoViewport]
    /\ engineViewportIdsRef = <<>>
    /\ volumeIdRef = <<>>
    /\ reconcileRuns = <<>>
    /\ rafQueue = <<>>
    /\ loadRuns = <<>>
    /\ toolGroup = [exists |-> FALSE, viewports |-> {}, crosshairs |-> FALSE]
    /\ toolGroup3D = [exists |-> FALSE, viewports |-> {}]
    /\ wlSync = [exists |-> FALSE, sources |-> {}, targets |-> {}]
    /\ seriesLoaded = FALSE
    /\ rejected = <<>>
    /\ observer = NoObserver
    /\ geometry = "none"
    /\ sizes = "all"
    /\ calls = <<>>
    /\ changes = 0

Init ==
    /\ Mounted
    /\ refsA = <<>> /\ refsB = <<>>
    /\ identityA = <<>> /\ identityB = <<>>


\* a superseded continuation that does nothing but return when it resumes
Returning ==
    \/ \E k \in 1..Len(initRuns) : initRuns[k].cancelled /\ initialized = "resolved"
    \/ initRuns # <<>> /\ initialized = "rejected"
    \/ \E k \in 1..Len(reconcileRuns) : reconcileRuns[k].cancelled
    \/ \E k \in 1..Len(loadRuns) :
          loadRuns[k].cancelled /\ loadRuns[k].pc \in {"createAndCacheVolume", "setStack"}
    \/ rafQueue # <<>> /\ Head(rafQueue).cancelled

\* no commit is running and none is due: a render that a state change has scheduled
\* is the next task to run
Quiet == phase = "idle" /\ ~(mounted /\ Current # committed)

\* the continuations that only return have returned as well: when they return makes
\* no difference, so they are taken first
Free == Quiet /\ ~Returning

(***************************************************************************)
(* External changes: the layout switcher, the data-access hooks, the login. *)
(***************************************************************************)
\* useImageIds delivers another frame-reference list
SetImageIds(ids) ==
    /\ mounted /\ Free /\ changes < MaxChanges
    /\ ids # imageIds
    /\ imageIds' = ids
    /\ seriesLoaded' = FALSE
    /\ changes' = changes + 1
    /\ calls' = <<>>
    /\ UNCHANGED <<mounted, phase, dirty, committed, ready, viewportReady, layout,
                   numberOfFrames, accessToken, domVars, initialized, initRuns,
                   engineCleanup, engineVars, engineViewportIdsRef, volumeIdRef,
                   reconcileRuns, rafQueue, loadRuns, toolVars, rejected, resizeVars, identityVars>>

\* useNumberOfFrames delivers another frame count
SetNumberOfFrames(n) ==
    /\ mounted /\ Free /\ changes < MaxChanges
    /\ n # numberOfFrames
    /\ numberOfFrames' = n
    /\ changes' = changes + 1
    /\ calls' = <<>>
    /\ UNCHANGED <<mounted, phase, dirty, committed, ready, viewportReady, layout,
                   imageIds, accessToken, domVars, initialized, initRuns,
                   engineCleanup, engineVars, engineViewportIdsRef, volumeIdRef,
                   reconcileRuns, rafQueue, loadRuns, toolVars, seriesLoaded,
                   rejected, resizeVars, identityVars>>

\* LoginContext delivers another access token
SetAccessToken(t) ==
    /\ mounted /\ Free /\ changes < MaxChanges
    /\ t # accessToken
    /\ accessToken' = t
    /\ changes' = changes + 1
    /\ calls' = <<>>
    /\ UNCHANGED <<mounted, phase, dirty, committed, ready, viewportReady, layout,
                   imageIds, numberOfFrames, domVars, initialized, initRuns,
                   engineCleanup, engineVars, engineViewportIdsRef, volumeIdRef,
                   reconcileRuns, rafQueue, loadRuns, toolVars, seriesLoaded,
                   rejected, resizeVars, identityVars>>

(***************************************************************************)
(* Render and commit.                                                       *)
(***************************************************************************)
\* cancelled = true in the closure of every earlier run of an effect
Cancel(runs) == [i \in 1..Len(runs) |-> [runs[i] EXCEPT !.cancelled = TRUE]]

\* cancelled = true in the closure of the frame callbacks of the viewport effect; the
\* frame callbacks of the resize observer have no such flag
CancelFrames(q) ==
    [i \in 1..Len(q) |-> IF q[i].kind = "reconcile" THEN [q[i] EXCEPT !.cancelled = TRUE]
                         ELSE q[i]]

\* the component returns the grid only with frames to show (the early return of the alert)
ShowsGrid(c) == c.imageIds # <<>> /\ c.numberOfFrames # 0

\* the <div id="viewport-..."> of the rendered layout, keyed by pane id
RenderedElements(c) ==
    [p \in ViewportId |->
        IF ShowsGrid(c) /\ p \in Range(layoutViewportIds(c.layout))
        THEN IF containerRef /\ elements[p].cur # 0
             THEN elements[p]
             ELSE [cur |-> elements[p].gen + 1, gen |-> elements[p].gen + 1]
        ELSE [cur |-> 0, gen |-> elements[p].gen]]

\* the run a call outside the effects' runs is attributed to
NoRun == [cancelled |-> FALSE, layout |-> layout]

\* the cleanup of the engine effect: destroy the engine and the tool groups
EngineCleanup ==
    [engines |-> IF engineRef # 0 THEN engines \ {engineRef} ELSE engines,
     registry |-> IF engineRef # 0 /\ registry = engineRef THEN 0 ELSE registry,
     viewports |-> IF engineRef # 0
                   THEN [p \in ViewportId |-> NoViewport]
                   ELSE viewports,
     toolGroup |-> [exists |-> FALSE, viewports |-> {}, crosshairs |-> FALSE],
     toolGroup3D |-> [exists |-> FALSE, viewports |-> {}],
     calls |-> IF engineRef # 0 THEN <<Call("destroy", "", NoRun, <<>>)>> ELSE <<>>]

\* the effects a commit runs again: those whose dependency array changed
DirtyEffects(old, new) == {e \in Effects : Deps(e, new) # Deps(e, old)}

\* a render with the state values c and the first half of its commit: the DOM is
\* updated and the cleanups of the effects whose dependencies changed run
Commit(c) ==
    /\ committed' = c
    /\ dirty' = DirtyEffects(committed, c)
    /\ containerRef' = ShowsGrid(c)
    /\ elements' = RenderedElements(c)
    /\ IF "engine" \in dirty' /\ engineCleanup
       THEN /\ engines' = EngineCleanup.engines
            /\ registry' = EngineCleanup.registry
            /\ viewports' = EngineCleanup.viewports
            /\ toolGroup' = EngineCleanup.toolGroup
            /\ toolGroup3D' = EngineCleanup.toolGroup3D
            /\ calls' = EngineCleanup.calls
            /\ engineRef' = 0
       ELSE /\ calls' = <<>>
            /\ UNCHANGED <<engineVars, toolGroup, toolGroup3D>>
    /\ initRuns' = IF "init" \in dirty' THEN Cancel(initRuns) ELSE initRuns
    /\ reconcileRuns' = IF "reconcile" \in dirty' THEN Cancel(reconcileRuns)
                        ELSE reconcileRuns
    /\ rafQueue' = IF "reconcile" \in dirty' THEN CancelFrames(rafQueue) ELSE rafQueue
    /\ loadRuns' = IF "load" \in dirty' THEN Cancel(loadRuns) ELSE loadRuns
    /\ observer' = IF "resize" \in dirty' THEN NoObserver ELSE observer
    /\ phase' = "resizeEffect"
    /\ UNCHANGED <<mounted, initialized, engineCleanup, engineViewportIdsRef,
                   volumeIdRef, wlSync, seriesLoaded, rejected, geometry, sizes,
                   identityVars>>

\* a state change made by a hook or by a run re-renders the component
Render ==
    /\ mounted /\ phase = "idle"
    /\ Current # committed
    /\ Commit(Current)
    /\ UNCHANGED <<reactVars, changes>>

\* DiconViewerToolbar onLayoutChange={setLayout}: the toolbar is rendered with the grid,
\* and a state change made in a click handler is rendered before the handler's task ends
SetLayout(l) ==
    /\ mounted /\ Free /\ changes < MaxChanges
    /\ containerRef
    /\ l # layout
    /\ layout' = l
    /\ changes' = changes + 1
    /\ Commit([Current EXCEPT !.layout = l])
    /\ UNCHANGED <<ready, viewportReady, imageIds, numberOfFrames, accessToken>>

\* the viewer unmounts: every cleanup runs and the DOM goes away
Unmount ==
    /\ mounted /\ Free /\ changes < MaxChanges
    /\ changes' = changes + 1
    /\ mounted' = FALSE
    /\ containerRef' = FALSE
    /\ elements' = [p \in ViewportId |-> [cur |-> 0, gen |-> elements[p].gen]]
    /\ IF engineCleanup
       THEN /\ engines' = EngineCleanup.engines
            /\ registry' = EngineCleanup.registry
            /\ viewports' = EngineCleanup.viewports
            /\ toolGroup' = EngineCleanup.toolGroup
            /\ toolGroup3D' = EngineCleanup.toolGroup3D
            /\ calls' = EngineCleanup.calls
            /\ engineRef' = 0
       ELSE /\ calls' = <<>>
            /\ UNCHANGED <<engineVars, toolGroup, toolGroup3D>>
    /\ initRuns' = Cancel(initRuns)
    /\ reconcileRuns' = Cancel(reconcileRuns)
    /\ rafQueue' = CancelFrames(rafQueue)
    /\ loadRuns' = Cancel(loadRuns)
    /\ observer' = NoObserver
    /\ UNCHANGED <<phase, dirty, committed, reactVars, initialized, engineCleanup,
                   engineViewportIdsRef, volumeIdRef, wlSync, seriesLoaded, rejected,
                   geometry, sizes, identityVars>>

(***************************************************************************)
(* useViewportResize: the resize observer on the tiles of the grid.         *)
(***************************************************************************)
\* React.useEffect(..., [engineRef, layout, containerRef]): observe every tile. A
\* ResizeObserver reports the tiles with a size when it starts to observe them; the
\* report is followed only where the engine has not been resized to the sizes yet, the
\* frame it leads to repeats the resize and the render before it otherwise
ResizeEffect ==
    /\ phase = "resizeEffect"
    /\ phase' = "engineEffect"
    /\ calls' = <<>>
    /\ observer' = IF "resize" \in dirty /\ containerRef /\ engineRef # 0
                   THEN [exists |-> TRUE,
                         tiles |-> [p \in ViewportId |-> elements[p].cur],
                         engine |-> engineRef,
                         pending |-> IF geometry = "changed" /\ \E p \in Sized : elements[p].cur # 0
                                     THEN 1 ELSE 0]
                   ELSE observer
    /\ UNCHANGED <<mounted, dirty, committed, reactVars, domVars, initialized, initRuns,
                   engineCleanup, engineVars, engineViewportIdsRef, volumeIdRef,
                   reconcileRuns, rafQueue, loadRuns, toolVars, seriesLoaded, changes,
                   rejected, geometry, sizes, identityVars>>

\* the observed tiles that have a width and a height: those still in the document
\* whose pane is among the panes given a size
NonZeroTiles(obs, nonzero) ==
    {p \in ViewportId : obs.tiles[p] # 0 /\ obs.tiles[p] = elements[p].cur /\ p \in nonzero}

\* the frame the callback of the observer requests: engine.resize and engine.render on
\* the engine the effect captured; merged is the number of size changes the
\* notification reports
ResizeFrame(obs) ==
    [kind |-> "resize", cancelled |-> FALSE, layout |-> layout, engine |-> obs.engine,
     merged |-> obs.pending]

\* the callback of the observer without the test for tiles of size zero
ResizeCallbackUntested(obs, nonzero) == <<ResizeFrame(obs)>>

\* the callback of the observer with a frame request for every tile that has a size
ResizeCallbackPerTile(obs, nonzero) ==
    [i \in 1..Cardinality(NonZeroTiles(obs, nonzero)) |-> ResizeFrame(obs)]

\* the callback of the observer: the frames it requests
ResizeCallback(obs, nonzero) ==
    IF NonZeroTiles(obs, nonzero) = {} THEN <<>> ELSE <<ResizeFrame(obs)>>

\* a size change of the grid reaches the observer: one of its tiles is in the document
Notified == observer.exists /\ \E p \in ViewportId :
                observer.tiles[p] # 0 /\ observer.tiles[p] = elements[p].cur

\* the sizes a change of the geometry gives the rendered tiles: none, the first or all
\* of them have a width and a height
Geometries == {"none", "first", "all"}

\* the geometry of the grid changes: the tiles get the sizes g; the observer, if there
\* is one, has a size change to report at the next rendering update
Resize(g) ==
    /\ mounted /\ Free /\ changes < MaxChanges
    /\ containerRef
    /\ changes' = changes + 1
    /\ sizes' = g
    /\ geometry' = IF g # "none" THEN "changed" ELSE "none"
    /\ observer' = IF Notified THEN [observer EXCEPT !.pending = @ + 1] ELSE observer
    /\ calls' = <<>>
    /\ UNCHANGED <<mounted, phase, dirty, committed, reactVars, domVars, initialized,
                   initRuns, engineCleanup, engineVars, engineViewportIdsRef, volumeIdRef,
                   reconcileRuns, rafQueue, loadRuns, toolVars, seriesLoaded, rejected,
                   identityVars>>

\* the rendering update of the browser, behind its frame callbacks: the observer's
\* callback is invoked once with all the size changes since its last invocation
ResizeNotification ==
    /\ mounted /\ Free
    /\ rafQueue = <<>>
    /\ observer.pending > 0
    /\ observer' = [observer EXCEPT !.pending = 0]
    /\ rafQueue' = ResizeCallback(observer, Sized)
    /\ calls' = <<[Call("ResizeObserver", "", NoRun, <<>>)
                     EXCEPT !.id = SelectSeq(layoutViewportIds(layout),
                                      LAMBDA p : p \in NonZeroTiles(observer, Sized))]>>
    /\ UNCHANGED <<mounted, phase, dirty, committed, reactVars, domVars, initialized,
                   initRuns, engineCleanup, engineVars, engineViewportIdsRef, volumeIdRef,
                   reconcileRuns, loadRuns, toolVars, seriesLoaded, rejected, changes,
                   geometry, sizes, identityVars>>

(***************************************************************************)
(* The engine effect and the initialisation effect.                         *)
(***************************************************************************)
\* new RenderingEngine(RENDERING_ENGINE_ID) without the lookup of the registered engine
ObtainEngineAlwaysNew ==
    LET e == IF engines = {} THEN 1 ELSE 2
    IN  [engine |-> e, engines |-> engines \cup {e}]

\* getRenderingEngine(RENDERING_ENGINE_ID), else new RenderingEngine(RENDERING_ENGINE_ID)
ObtainEngine ==
    IF registry # 0
    THEN [engine |-> registry, engines |-> engines]
    ELSE LET e == IF engines = {} THEN 1 ELSE 2
         IN  [engine |-> e, engines |-> engines \cup {e}]

\* React.useEffect(..., [ready]): create engine once
EngineEffect ==
    /\ phase = "engineEffect"
    /\ phase' = "initEffect"
    /\ calls' = <<>>
    /\ IF "engine" \notin dirty
       THEN UNCHANGED <<engineCleanup, engines, registry, engineRef>>
       ELSE IF ~committed.ready
            THEN /\ engineCleanup' = FALSE
                 /\ UNCHANGED <<engines, registry, engineRef>>
            ELSE /\ engines' = ObtainEngine.engines
                 /\ registry' = ObtainEngine.engine
                 /\ engineRef' = ObtainEngine.engine
                 /\ engineCleanup' = TRUE
    /\ UNCHANGED <<mounted, dirty, committed, reactVars, domVars, initialized, initRuns,
                   viewports, engineViewportIdsRef, volumeIdRef, reconcileRuns, rafQueue,
                   loadRuns, toolVars, seriesLoaded, changes, rejected, resizeVars, identityVars>>

\* React.useEffect(..., [user?.access_token]): initCornerstone, then setReady(true)
InitEffect ==
    /\ phase = "initEffect"
    /\ phase' = "reconcileEffect"
    /\ calls' = <<>>
    /\ IF "init" \notin dirty
       THEN UNCHANGED <<initialized, initRuns>>
       ELSE /\ initialized' = IF initialized = "null" THEN "pending" ELSE initialized
            /\ initRuns' = Append(initRuns, [cancelled |-> FALSE])
    /\ UNCHANGED <<mounted, dirty, committed, reactVars, domVars, engineCleanup,
                   engineVars, engineViewportIdsRef, volumeIdRef, reconcileRuns, rafQueue,
                   loadRuns, toolVars, seriesLoaded, changes, rejected, resizeVars, identityVars>>

\* the promise of initCornerstone resolves
InitResolves ==
    /\ Free
    /\ initialized = "pending"
    /\ initialized' = "resolved"
    /\ calls' = <<>>
    /\ UNCHANGED <<mounted, phase, dirty, committed, reactVars, domVars, initRuns,
                   engineCleanup, engineVars, engineViewportIdsRef, volumeIdRef,
                   reconcileRuns, rafQueue, loadRuns, toolVars, seriesLoaded, changes,
                   rejected, resizeVars, identityVars>>

\* the promise of initCornerstone rejects: csInit or dicomImageLoader.init failed. The
\* module keeps the promise, so every later call of initCornerstone returns it again
InitRejects ==
    /\ Free
    /\ initialized = "pending"
    /\ initialized' = "rejected"
    /\ calls' = <<>>
    /\ UNCHANGED <<mounted, phase, dirty, committed, reactVars, domVars, initRuns,
                   engineCleanup, engineVars, engineViewportIdsRef, volumeIdRef,
                   reconcileRuns, rafQueue, loadRuns, toolVars, seriesLoaded, changes,
                   rejected, resizeVars, identityVars>>

Remove(runs, i) == SubSeq(runs, 1, i - 1) \o SubSeq(runs, i + 1, Len(runs))

\* the value of ready behind the await of a run that sets it whether or not the
\* promise was fulfilled
SetReadyUnawaited(run) == IF run.cancelled THEN ready ELSE TRUE

\* the value of ready behind the await: a rejected promise throws at the await, and
\* if (!cancelled) setReady(true) is reached only when it was fulfilled
SetReady(run) == IF run.cancelled \/ initialized = "rejected" THEN ready ELSE TRUE

\* a run of the initialisation effect resumes after its await
InitResume(i) ==
    /\ Quiet /\ (Free \/ initRuns[i].cancelled \/ initialized = "rejected")
    /\ initialized \in {"resolved", "rejected"}
    /\ initRuns' = Remove(initRuns, i)
    /\ ready' = SetReady(initRuns[i])
    /\ calls' = <<>>
    /\ UNCHANGED <<mounted, phase, dirty, committed, viewportReady, layout, imageIds,
                   numberOfFrames, accessToken, domVars, initialized, engineCleanup,
                   engineVars, engineViewportIdsRef, volumeIdRef, reconcileRuns, rafQueue,
                   loadRuns, toolVars, seriesLoaded, changes, rejected, resizeVars, identityVars>>


(***************************************************************************)
(* The viewport effect: disable the removed viewports, enable the layout's. *)
(***************************************************************************)
\* the type rule with the test of the 3D flag before the test of the frame count
ViewportType3DFirst(frames, view) ==
    IF view.is3D THEN "VOLUME_3D"
    ELSE IF frames <= 1 THEN "STACK" ELSE "ORTHOGRAPHIC"

\* the type rule with a stack viewport for a view without orientation and 3D flag
ViewportTypePlainStack(frames, view) ==
    IF frames <= 1 THEN "STACK"
    ELSE IF view.is3D THEN "VOLUME_3D"
    ELSE IF view.orientation = "null" THEN "STACK" ELSE "ORTHOGRAPHIC"

\* the viewport type of a view for a frame count
ViewportType(frames, view) ==
    IF frames <= 1 THEN "STACK"
    ELSE IF view.is3D THEN "VOLUME_3D" ELSE "ORTHOGRAPHIC"

\* engine.disableElement(id)
disableElement(vps, id) == [vps EXCEPT ![id] = NoViewport]

\* engine.enableElement({viewportId, element, type})
enableElement(vps, id, element, type) ==
    [vps EXCEPT ![id] = [type |-> type, element |-> element,
                         volumeId |-> <<>>, stack |-> <<>>]]

\* every viewport of the previous layout, whether the new layout has it or not
RemovedViewportsAll(previous, l) == previous

\* the viewports of the previous layout that the new layout does not have
RemovedViewports(previous, l) ==
    SelectSeq(previous, LAMBDA id : id \notin Range(layoutViewportIds(l)))

\* the for loop of the async part without the tests of the cancelled flag
RECURSIVE EnableLoopUncancelled(_, _, _, _)
EnableLoopUncancelled(run, i, vps, cs) ==
    IF i > Len(VIEW_LAYOUTS[run.layout])
    THEN [status |-> "finished", i |-> i, viewports |-> vps, calls |-> cs]
    ELSE IF ~containerRef
    THEN [status |-> "threw", i |-> i, viewports |-> vps,
          calls |-> Append(cs, Call("throw", VIEW_LAYOUTS[run.layout][i].id, run, <<>>))]
    ELSE LET view == VIEW_LAYOUTS[run.layout][i]
             element == elements[view.id].cur
             type == ViewportType(run.numberOfFrames, view)
             enable == Call("enableElement", view.id, run, <<>>)
             disable == Call("disableElement", view.id, run, <<>>)
         IN  IF vps[view.id].type = "none"
             THEN [status |-> "suspended", i |-> i,
                   viewports |-> enableElement(vps, view.id, element, type),
                   calls |-> Append(cs, enable)]
             ELSE IF vps[view.id].element # element \/ vps[view.id].type # type
             THEN [status |-> "suspended", i |-> i,
                   viewports |-> enableElement(disableElement(vps, view.id),
                                               view.id, element, type),
                   calls |-> cs \o <<disable, enable>>]
             ELSE EnableLoopUncancelled(run, i + 1, vps, cs)

\* the for loop of the async part, from view i up to its next await:
\* status "suspended" (awaiting enableElement for view i), "finished" (the loop ended),
\* "returned" (cancelled) or "threw"
RECURSIVE EnableLoop(_, _, _, _)
EnableLoop(run, i, vps, cs) ==
    IF i > Len(VIEW_LAYOUTS[run.layout])
    THEN [status |-> "finished", i |-> i, viewports |-> vps, calls |-> cs]
    ELSE IF run.cancelled
    THEN [status |-> "returned", i |-> i, viewports |-> vps, calls |-> cs]
    ELSE IF ~containerRef
    THEN [status |-> "threw", i |-> i, viewports |-> vps,
          calls |-> Append(cs, Call("throw", VIEW_LAYOUTS[run.layout][i].id, run, <<>>))]
    ELSE LET view == VIEW_LAYOUTS[run.layout][i]
             element == elements[view.id].cur
             type == ViewportType(run.numberOfFrames, view)
             enable == Call("enableElement", view.id, run, <<>>)
             disable == Call("disableElement", view.id, run, <<>>)
         IN  IF vps[view.id].type = "none"
             THEN [status |-> "suspended", i |-> i,
                   viewports |-> enableElement(vps, view.id, element, type),
                   calls |-> Append(cs, enable)]
             ELSE IF vps[view.id].element # element \/ vps[view.id].type # type
             THEN [status |-> "suspended", i |-> i,
                   viewports |-> enableElement(disableElement(vps, view.id),
                                               view.id, element, type),
                   calls |-> cs \o <<disable, enable>>]
             ELSE EnableLoop(run, i + 1, vps, cs)

\* what follows the loop of a run that was not cancelled: the frame request,
\* engineViewportIdsRef.current = layoutViewportIds, setViewportReady(true)
ReconcileDone(run) ==
    /\ rafQueue' = Append(rafQueue, [kind |-> "reconcile", cancelled |-> FALSE,
                                     layout |-> run.layout])
    /\ engineViewportIdsRef' = layoutViewportIds(run.layout)
    /\ viewportReady' = TRUE

\* the run of the viewport effect that a commit with the state values c starts
ReconcileRun(c) ==
    [layout |-> c.layout, numberOfFrames |-> c.numberOfFrames, cancelled |-> FALSE, i |-> 0]

\* the synchronous part of a run and its async part up to the first await: the removed
\* viewports are disabled, then the loop over the layout's views starts
ReconcileStart(run) ==
    LET removed == RemovedViewports(engineViewportIdsRef, run.layout)
        disabled == [p \in ViewportId |->
                        IF p \in Range(removed) THEN NoViewport ELSE viewports[p]]
        cs == [k \in 1..Len(removed) |-> Call("disableElement", removed[k], run, <<>>)]
    IN  EnableLoop(run, 1, disabled, cs)

\* React.useEffect(..., [ready, layout, numberOfFrames]): create and configure viewports
ReconcileEffect ==
    /\ phase = "reconcileEffect"
    /\ phase' = "loadEffect"
    /\ IF \/ "reconcile" \notin dirty
          \/ ~committed.ready \/ ~containerRef \/ engineRef = 0
       THEN /\ calls' = <<>>
            /\ UNCHANGED <<viewportReady, viewports, engineViewportIdsRef,
                           reconcileRuns, rafQueue>>
       ELSE LET run == ReconcileRun(committed)
                r == ReconcileStart(run)
            IN  /\ viewports' = r.viewports
                /\ calls' = r.calls
                /\ IF r.status = "finished"
                   THEN /\ ReconcileDone(run)
                        /\ UNCHANGED reconcileRuns
                   ELSE /\ reconcileRuns' = Append(reconcileRuns, [run EXCEPT !.i = r.i])
                        /\ viewportReady' = FALSE
                        /\ UNCHANGED <<engineViewportIdsRef, rafQueue>>
    /\ UNCHANGED <<mounted, dirty, committed, ready, layout, imageIds, numberOfFrames,
                   accessToken, domVars, initialized, initRuns, engineCleanup, engines,
                   registry, engineRef, volumeIdRef, loadRuns, toolVars, seriesLoaded,
                   changes, rejected, resizeVars, identityVars>>

\* a run of the viewport effect resumes after awaiting enableElement
ReconcileResume(k) ==
    /\ Quiet /\ (Free \/ reconcileRuns[k].cancelled)
    /\ LET run == reconcileRuns[k]
           r == EnableLoop(run, run.i + 1, viewports, <<>>)
       IN  /\ viewports' = r.viewports
           /\ calls' = r.calls
           /\ IF r.status = "suspended"
              THEN /\ reconcileRuns' = [reconcileRuns EXCEPT ![k].i = r.i]
                   /\ UNCHANGED <<viewportReady, engineViewportIdsRef, rafQueue>>
              ELSE /\ reconcileRuns' = Remove(reconcileRuns, k)
                   /\ IF r.status = "finished" /\ ~run.cancelled
                      THEN ReconcileDone(run)
                      ELSE UNCHANGED <<viewportReady, engineViewportIdsRef, rafQueue>>
    /\ UNCHANGED <<mounted, phase, dirty, committed, ready, layout, imageIds,
                   numberOfFrames, accessToken, domVars, initialized, initRuns,
                   engineCleanup, engines, registry, engineRef, volumeIdRef, loadRuns,
                   toolVars, seriesLoaded, changes, rejected, resizeVars, identityVars>>

\* the browser runs the oldest requested animation frame. The callback of the viewport
\* effect: engine.resize, resetCamera on every viewport, engine.render, unless it was
\* cancelled or engineRef.current is null. The callback of the resize observer:
\* engine.resize(false, true) and engine.render() on the engine it captured, inside
\* try/catch; on a destroyed engine the first call throws or the calls have no effect
AnimationFrame ==
    /\ Quiet
    /\ rafQueue # <<>>
    /\ Free \/ Head(rafQueue).cancelled
    /\ rafQueue' = Tail(rafQueue)
    /\ LET frame == Head(rafQueue)
           resize == Call("resize", "", frame, <<>>)
           render == Call("render", "", frame, <<>>)
           enabled == SelectSeq(<<"single", "axial", "sagittal", "coronal", "volume3D">>,
                                LAMBDA p : viewports[p].type # "none")
           reset == [k \in 1..Len(enabled) |-> Call("resetCamera", enabled[k], frame, <<>>)]
       IN  IF frame.kind = "reconcile"
           THEN /\ calls' = IF ~frame.cancelled /\ engineRef # 0
                            THEN <<resize>> \o reset \o <<render>> ELSE <<>>
                /\ geometry' = geometry
           ELSE IF frame.engine \in engines
           THEN /\ calls' = <<resize, render>>
                /\ geometry' = "none"
           ELSE /\ \E threw \in BOOLEAN :
                      calls' = IF threw THEN <<[resize EXCEPT !.id = <<frame.engine>>]>>
                               ELSE <<[resize EXCEPT !.id = <<frame.engine>>],
                                      [render EXCEPT !.id = <<frame.engine>>]>>
                /\ geometry' = geometry
    /\ UNCHANGED <<mounted, phase, dirty, committed, reactVars, domVars, initialized,
                   initRuns, engineCleanup, engineVars, engineViewportIdsRef, volumeIdRef,
                   reconcileRuns, loadRuns, toolVars, seriesLoaded, changes, rejected,
                   observer, sizes, identityVars>>

(***************************************************************************)
(* The tool groups (toolgroups.ts).                                         *)
(***************************************************************************)
\* getToolGroup(): the existing group, else a new one with the crosshairs disabled
getToolGroup(tg) ==
    IF tg.exists THEN tg
    ELSE [exists |-> TRUE, viewports |-> {}, crosshairs |-> FALSE]

\* get3DToolGroup()
get3DToolGroup(tg) ==
    IF tg.exists THEN tg ELSE [exists |-> TRUE, viewports |-> {}]

\* getWindowLevelSync()
getWindowLevelSync(sync) ==
    IF sync.exists THEN sync ELSE [exists |-> TRUE, sources |-> {}, targets |-> {}]

\* the attachment without the removal of the viewports attached before
attachToolGroupsKeeping(views, tools) ==
    LET ids == {views[i].id : i \in 1..Len(views)}
        ids3D == {views[i].id : i \in {j \in 1..Len(views) : views[j].is3D}}
        tg == getToolGroup(tools.toolGroup)
        tg3D == get3DToolGroup(tools.toolGroup3D)
        sync == getWindowLevelSync(tools.wlSync)
    IN  [toolGroup |-> [exists |-> TRUE, viewports |-> tg.viewports \cup (ids \ ids3D),
                        crosshairs |-> Cardinality(ids \ ids3D) >= 2],
         toolGroup3D |-> [tg3D EXCEPT !.viewports = tg3D.viewports \cup ids3D],
         wlSync |-> [sync EXCEPT !.sources = sync.sources \cup ids,
                                 !.targets = sync.targets \cup ids]]

\* the attachment that enables the crosshairs and never disables them
attachToolGroupsEnableOnly(views, tools) ==
    LET ids == {views[i].id : i \in 1..Len(views)}
        ids3D == {views[i].id : i \in {j \in 1..Len(views) : views[j].is3D}}
        tg == getToolGroup(tools.toolGroup)
        tg3D == get3DToolGroup(tools.toolGroup3D)
        sync == getWindowLevelSync(tools.wlSync)
    IN  [toolGroup |-> [exists |-> TRUE, viewports |-> ids \ ids3D,
                        crosshairs |-> tg.crosshairs \/ Cardinality(ids \ ids3D) >= 2],
         toolGroup3D |-> [tg3D EXCEPT !.viewports = ids3D],
         wlSync |-> [sync EXCEPT !.sources = ids, !.targets = ids]]

\* attachToolGroupsForLayout(views, renderingEngineId)
attachToolGroupsForLayout(views, tools) ==
    LET ids == {views[i].id : i \in 1..Len(views)}
        ids3D == {views[i].id : i \in {j \in 1..Len(views) : views[j].is3D}}
        tg == getToolGroup(tools.toolGroup)
        tg3D == get3DToolGroup(tools.toolGroup3D)
        sync == getWindowLevelSync(tools.wlSync)
    IN  [toolGroup |-> [exists |-> TRUE, viewports |-> ids \ ids3D,
                        crosshairs |-> Cardinality(ids \ ids3D) >= 2],
         toolGroup3D |-> [tg3D EXCEPT !.viewports = ids3D],
         wlSync |-> [sync EXCEPT !.sources = ids, !.targets = ids]]

(***************************************************************************)
(* The load-and-assign effect.                                              *)
(***************************************************************************)
Tools == [toolGroup |-> toolGroup, toolGroup3D |-> toolGroup3D, wlSync |-> wlSync]

\* the outcome of one stretch of a run between two awaits
Outcome(status, run, vps, ref, tools, cs) ==
    [status |-> status, run |-> run, viewports |-> vps, volumeIdRef |-> ref,
     tools |-> tools, calls |-> cs]

\* vp.setStack(imageIds)
setStack(vps, id, ids) == [vps EXCEPT ![id].stack = ids, ![id].volumeId = <<>>]

\* vp.setVolumes([{ volumeId }])
setVolumes(vps, id, volumeId) == [vps EXCEPT ![id].volumeId = volumeId, ![id].stack = <<>>]

\* the for loop and the attachment without the tests of the cancelled flag
RECURSIVE AssignLoopUnguarded(_, _, _, _)
AssignLoopUnguarded(run, i, ref, cs) ==
    IF i > Len(VIEW_LAYOUTS[run.layout])
    THEN Outcome("ended", run, viewports, ref,
                 attachToolGroupsForLayout(VIEW_LAYOUTS[run.layout], Tools),
                 Append(cs, Call("attach", "", run, <<>>)))
    ELSE LET id == VIEW_LAYOUTS[run.layout][i].id
         IN  IF viewports[id].type = "none"
             THEN AssignLoopUnguarded(run, i + 1, ref, cs)
             ELSE IF viewports[id].type = "STACK"
             THEN Outcome("ended", run, viewports, ref, Tools,
                          Append(cs, Call("throw", id, run, run.volumeId)))
             ELSE Outcome("suspended", [run EXCEPT !.pc = "setVolumes", !.i = i],
                          setVolumes(viewports, id, run.volumeId), ref, Tools,
                          Append(cs, Call("setVolumes", id, run, run.volumeId)))

\* the for loop over the layout's views, from view i up to its next await, and the
\* attachment of the tool groups after it
RECURSIVE AssignLoop(_, _, _, _)
AssignLoop(run, i, ref, cs) ==
    IF i > Len(VIEW_LAYOUTS[run.layout])
    THEN IF run.cancelled
         THEN Outcome("ended", run, viewports, ref, Tools, cs)
         ELSE Outcome("ended", run, viewports, ref,
                      attachToolGroupsForLayout(VIEW_LAYOUTS[run.layout], Tools),
                      Append(cs, Call("attach", "", run, <<>>)))
    ELSE IF run.cancelled
    THEN Outcome("ended", run, viewports, ref, Tools, cs)
    ELSE LET id == VIEW_LAYOUTS[run.layout][i].id
         IN  IF viewports[id].type = "none"
             THEN AssignLoop(run, i + 1, ref, cs)
             ELSE IF viewports[id].type = "STACK"
             THEN Outcome("ended", run, viewports, ref, Tools,
                          Append(cs, Call("throw", id, run, run.volumeId)))
             ELSE Outcome("suspended", [run EXCEPT !.pc = "setVolumes", !.i = i],
                          setVolumes(viewports, id, run.volumeId), ref, Tools,
                          Append(cs, Call("setVolumes", id, run, run.volumeId)))

\* the async part from its start up to its first await
LoadStart(run) ==
    IF engineRef = 0
    THEN Outcome("ended", run, viewports, volumeIdRef, Tools,
                 <<Call("throw", "", run, <<>>)>>)
    ELSE IF run.layout = "1x1" /\ run.numberOfFrames <= 1
    THEN IF viewports["single"].type = "STACK"
         THEN Outcome("suspended", [run EXCEPT !.pc = "setStack"],
                      setStack(viewports, "single", run.imageIds), volumeIdRef, Tools,
                      <<Call("setStack", "single", run, <<>>)>>)
         ELSE Outcome("ended", run, viewports, volumeIdRef, Tools, <<>>)
    ELSE IF volumeIdRef # run.volumeId
    THEN Outcome("suspended", [run EXCEPT !.pc = "createAndCacheVolume"], viewports,
                 volumeIdRef, Tools,
                 <<Call("createAndCacheVolume", "", run, run.volumeId)>>)
    ELSE AssignLoop(run, 1, volumeIdRef, <<>>)

\* the async part from the await it is suspended at up to its next await; the awaits
\* of vp.resetCamera() and vp.render(), after which the run changes nothing, are taken
\* with the await of the assignment before them
LoadContinue(run) ==
    CASE run.pc = "setStack" ->
            Outcome("ended", run, viewports, volumeIdRef, Tools,
                    IF run.cancelled THEN <<>>
                    ELSE <<Call("render", "single", run, <<>>)>>)
      [] run.pc = "createAndCacheVolume" ->
            IF run.cancelled
            THEN Outcome("ended", run, viewports, volumeIdRef, Tools, <<>>)
            ELSE Outcome("suspended", [run EXCEPT !.pc = "load"], viewports,
                         volumeIdRef, Tools, <<Call("load", "", run, run.volumeId)>>)
      [] run.pc = "load" ->
            AssignLoop(run, 1, run.volumeId, <<>>)
      [] run.pc = "setVolumes" ->
            LET id == VIEW_LAYOUTS[run.layout][run.i].id
            IN  AssignLoop(run, run.i + 1, volumeIdRef,
                           <<Call("resetCamera", id, run, <<>>)>>
                           \o (IF run.cancelled THEN <<>>
                               ELSE <<Call("render", id, run, <<>>)>>))

\* the state after one stretch of a run
Apply(o) ==
    /\ viewports' = o.viewports
    /\ volumeIdRef' = o.volumeIdRef
    /\ toolGroup' = o.tools.toolGroup
    /\ toolGroup3D' = o.tools.toolGroup3D
    /\ wlSync' = o.tools.wlSync
    /\ calls' = o.calls

\* React.useEffect(..., [viewportReady, layout, imageIds, numberOfFrames]): load and assign
LoadEffect ==
    /\ phase = "loadEffect"
    /\ phase' = "idle"
    /\ IF "load" \notin dirty \/ ~committed.viewportReady \/ committed.imageIds = <<>>
       THEN /\ calls' = <<>>
            /\ UNCHANGED <<viewports, volumeIdRef, toolVars, loadRuns>>
       ELSE LET run == [layout |-> committed.layout, imageIds |-> committed.imageIds,
                        numberOfFrames |-> committed.numberOfFrames,
                        volumeId |-> makeVolumeId(committed.imageIds),
                        cancelled |-> FALSE, pc |-> "start", i |-> 0]
                o == LoadStart(run)
            IN  /\ Apply(o)
                /\ loadRuns' = IF o.status = "suspended" THEN Append(loadRuns, o.run)
                               ELSE loadRuns
    /\ UNCHANGED <<mounted, dirty, committed, reactVars, domVars, initialized, initRuns,
                   engineCleanup, engines, registry, engineRef, engineViewportIdsRef,
                   reconcileRuns, rafQueue, seriesLoaded, changes, rejected, resizeVars, identityVars>>

\* a run of the load-and-assign effect resumes after its await
LoadResume(k) ==
    /\ Quiet
    /\ \/ Free
       \/ loadRuns[k].cancelled /\ loadRuns[k].pc \in {"createAndCacheVolume", "setStack"}
    /\ LET run == loadRuns[k]
           o == LoadContinue(run)
       IN  /\ Apply(o)
           /\ loadRuns' = IF o.status = "suspended" THEN [loadRuns EXCEPT ![k] = o.run]
                          ELSE Remove(loadRuns, k)
           /\ seriesLoaded' = IF /\ run.pc = "load"
                                 /\ imageIds # <<>>
                                 /\ run.volumeId = makeVolumeId(imageIds)
                              THEN TRUE ELSE seriesLoaded
    /\ UNCHANGED <<mounted, phase, dirty, committed, reactVars, domVars, initialized,
                   initRuns, engineCleanup, engines, registry, engineRef,
                   engineViewportIdsRef, reconcileRuns, rafQueue, changes, rejected, resizeVars, identityVars>>

\* the promise of createAndCacheVolume or of vol.load() rejects: the await throws, the
\* async part ends there and nothing behind it is executed
LoadReject(run) ==
    Outcome("ended", run, viewports, volumeIdRef, Tools,
            <<Call("rejects", "", run, run.volumeId)>>)

\* the volume loader fails for a run that awaits it
LoadRejects(k) ==
    /\ Free
    /\ Len(rejected) < MaxFailures
    /\ loadRuns[k].pc \in {"createAndCacheVolume", "load"}
    /\ Apply(LoadReject(loadRuns[k]))
    /\ loadRuns' = Remove(loadRuns, k)
    /\ rejected' = Append(rejected, loadRuns[k].volumeId)
    /\ UNCHANGED <<mounted, phase, dirty, committed, reactVars, domVars, initialized,
                   initRuns, engineCleanup, engines, registry, engineRef,
                   engineViewportIdsRef, reconcileRuns, rafQueue, seriesLoaded, changes,
                   resizeVars, identityVars>>

(***************************************************************************)
(* The identity function on two frame-reference lists.                      *)
(***************************************************************************)
\* the order of urls.sort(): by code units, a prefix before its extensions
RECURSIVE StrLeq(_, _)
StrLeq(a, b) ==
    IF a = <<>> THEN TRUE
    ELSE IF b = <<>> THEN FALSE
    ELSE IF Head(a) # Head(b) THEN Head(a) < Head(b)
    ELSE StrLeq(Tail(a), Tail(b))

\* the lists of up to n instance urls as the query delivers them: sorted
RECURSIVE UrlListsUpTo(_)
UrlListsUpTo(n) ==
    IF n = 0 THEN {<<>>}
    ELSE LET shorter == UrlListsUpTo(n - 1)
         IN  shorter \cup
             UNION {{Append(l, u) : u \in {v \in RawUrls :
                                              \A i \in 1..Len(l) : StrLeq(l[i], v)}} :
                    l \in {m \in shorter : Len(m) = n - 1}}

\* makeVolumeId on the image ids of both lists
Identify ==
    /\ identityA = <<>>
    /\ identityA' = makeVolumeId(useImageIds(refsA))
    /\ identityB' = makeVolumeId(useImageIds(refsB))
    /\ UNCHANGED <<mounted, phase, dirty, committed, reactVars, domVars, initialized,
                   initRuns, engineCleanup, engineVars, engineViewportIdsRef, volumeIdRef,
                   reconcileRuns, rafQueue, loadRuns, toolVars, seriesLoaded, rejected,
                   resizeVars, calls, changes, refsA, refsB>>

IdentityInit ==
    /\ Mounted
    /\ imageIds = <<>>
    /\ engines = {}
    /\ refsA \in UrlListsUpTo(MaxListLen) \ {<<>>}
    /\ refsB \in UrlListsUpTo(MaxListLen) \ {<<>>}
    /\ identityA = <<>> /\ identityB = <<>>

IdentitySpec == IdentityInit /\ [][Identify]_vars

(***************************************************************************)
(* The viewer.                                                              *)
(***************************************************************************)
Next ==
    \/ \E l \in ViewLayout : SetLayout(l)
    \/ \E ids \in ImageIdLists : SetImageIds(ids)
    \/ \E n \in 0..MaxFrames : SetNumberOfFrames(n)
    \/ \E t \in Tokens : SetAccessToken(t)
    \/ Render
    \/ Unmount
    \/ \E g \in Geometries : Resize(g)
    \/ ResizeNotification
    \/ ResizeEffect
    \/ EngineEffect
    \/ InitEffect
    \/ ReconcileEffect
    \/ LoadEffect
    \/ InitResolves
    \/ InitRejects
    \/ \E k \in 1..Len(initRuns) : InitResume(k)
    \/ \E k \in 1..Len(reconcileRuns) : ReconcileResume(k)
    \/ \E k \in 1..Len(loadRuns) : LoadResume(k)
    \/ \E k \in 1..Len(loadRuns) : LoadRejects(k)
    \/ AnimationFrame

Spec == Init /\ [][Next]_vars

\* the steps of the viewer itself: renders, effects, continuations of awaited promises
\* and animation frames
System ==
    \/ Render
    \/ ResizeEffect
    \/ EngineEffect
    \/ InitEffect
    \/ ReconcileEffect
    \/ LoadEffect
    \/ InitResolves
    \/ \E k \in 1..Len(initRuns) : InitResume(k)
    \/ \E k \in 1..Len(reconcileRuns) : ReconcileResume(k)
    \/ \E k \in 1..Len(loadRuns) : LoadResume(k)
    \/ AnimationFrame
    \/ ResizeNotification

\* the viewer with its scheduling: React runs the renders and effects that are due,
\* pending promises settle and the browser delivers the requested frames
FairSpec == Spec /\ WF_vars(System)

(***************************************************************************)
(* The viewer from the state in which it displays a series: cornerstone is  *)
(* initialised, the volume of the list is loaded and assigned to the pane   *)
(* of the 1x1 layout, the tools are attached and no run is in flight. The   *)
(* external changes counted from here are the changes after the first       *)
(* display.                                                                 *)
(***************************************************************************)
Displayed ==
    /\ mounted = TRUE
    /\ phase = "idle"
    /\ dirty = {"load"}
    /\ ready = TRUE
    /\ viewportReady = TRUE
    /\ layout = "1x1"
    /\ imageIds = useImageIds(<<UrlA2>>)
    /\ numberOfFrames = 2
    /\ accessToken = "t1"
    /\ committed = Current
    /\ containerRef = TRUE
    /\ elements = [p \in ViewportId |->
                      IF p = "single" THEN [cur |-> 1, gen |-> 1] ELSE NoElement]
    /\ initialized = "resolved"
    /\ initRuns = <<>>
    /\ engineCleanup = TRUE
    /\ engines = {1}
    /\ registry = 1
    /\ engineRef = 1
    /\ viewports = [p \in ViewportId |->
                       IF p = "single"
                       THEN [type |-> "ORTHOGRAPHIC", element |-> 1,
                             volumeId |-> makeVolumeId(imageIds), stack |-> <<>>]
                       ELSE NoViewport]
    /\ engineViewportIdsRef = <<"single">>
    /\ volumeIdRef = makeVolumeId(imageIds)
    /\ reconcileRuns = <<>>
    /\ rafQueue = <<>>
    /\ loadRuns = <<>>
    /\ toolGroup = [exists |-> TRUE, viewports |-> {"single"}, crosshairs |-> FALSE]
    /\ toolGroup3D = [exists |-> TRUE, viewports |-> {}]
    /\ wlSync = [exists |-> TRUE, sources |-> {"single"}, targets |-> {"single"}]
    /\ seriesLoaded = TRUE
    /\ rejected = <<>>
    /\ observer = NoObserver
    /\ geometry = "none"
    /\ sizes = "all"
    /\ calls = <<>>
    /\ changes = 0
    /\ refsA = <<>> /\ refsB = <<>>
    /\ identityA = <<>> /\ identityB = <<>>

\* the steps of the viewer while it displays the series: the layout, the frame count
\* and the geometry change, the frame list and the access token remain the same
NextDisplayed ==
    \/ \E l \in ViewLayout : SetLayout(l)
    \/ \E n \in 0..MaxFrames : SetNumberOfFrames(n)
    \/ Render
    \/ Unmount
    \/ \E g \in Geometries : Resize(g)
    \/ ResizeNotification
    \/ ResizeEffect
    \/ EngineEffect
    \/ InitEffect
    \/ ReconcileEffect
    \/ LoadEffect
    \/ \E k \in 1..Len(reconcileRuns) : ReconcileResume(k)
    \/ \E k \in 1..Len(loadRuns) : LoadResume(k)
    \/ AnimationFrame

DisplayedSpec == Displayed /\ [][NextDisplayed]_vars

(***************************************************************************)
(* Properties.                                                              *)
(***************************************************************************)
\* the runs of the load-and-assign effect whose volume loader is at work
Loading == {k \in 1..Len(loadRuns) : loadRuns[k].pc \in {"createAndCacheVolume", "load"}}

\* the panes enabled in the rendering engine
EnabledPanes == {p \in ViewportId : viewports[p].type # "none"}

\* the panes the tool groups and the synchronizer hold
BoundPanes ==
    toolGroup.viewports \cup toolGroup3D.viewports \cup wlSync.sources \cup wlSync.targets

\* C1: at most one volume load is in flight per identity: no two runs of the
\* load-and-assign effect have the loader (createAndCacheVolume, then load) at work
\* for the same volume identity
C1_AtMostOneLoadInFlight ==
    \A i, j \in Loading : i # j => loadRuns[i].volumeId # loadRuns[j].volumeId

C3_AssignAfterReconcile ==
    \A k \in 1..Len(calls) :
        calls[k].op \in {"setStack", "setVolumes"} => calls[k].settled

\* a step in which a run of the viewport effect completes: it requests its frame
ReconcileCompletes ==
    /\ Len(rafQueue') > Len(rafQueue)
    /\ rafQueue'[Len(rafQueue')].kind = "reconcile"

\* C4: when a reconcile run completes for a layout (it requests the frame and records
\* the layout's pane ids), the panes enabled in the engine are exactly that layout's
C4_ReconcilePostCondition ==
    [][ReconcileCompletes
         => EnabledPanes' = Range(layoutViewportIds(rafQueue'[Len(rafQueue')].layout))]_vars

\* C5: every pane the 2D tool group, the 3D tool group or the window-level synchronizer
\* holds is enabled in the rendering engine
C5_BindingsEnabled == BoundPanes \subseteq EnabledPanes

\* C6: attachToolGroupsForLayout is executed only for a layout whose panes are all
\* enabled, and once a reconcile has completed and every run has ended, the tools are
\* attached to the panes of the layout, whether they show a stack or a volume
C6_AttachAfterReconcile ==
    /\ \A k \in 1..Len(calls) : calls[k].op = "attach" => calls[k].panesEnabled
    /\ ( /\ mounted /\ Free /\ containerRef /\ viewportReady /\ imageIds # <<>>
         /\ reconcileRuns = <<>> /\ rafQueue = <<>> /\ loadRuns = <<>>
         /\ EnabledPanes = Range(layoutViewportIds(layout)) )
       => wlSync.sources = Range(layoutViewportIds(layout))

\* C7: the engine is destroyed only in the step that unmounts the viewer, once, and
\* an unmount with an engine destroys it; no change of layout, frame list, frame
\* count or access token destroys the engine
C7_DestroyOnlyOnUnmount ==
    [][ /\ \A k \in 1..Len(calls') :
              calls'[k].op = "destroy"
                  => /\ mounted /\ ~mounted'
                     /\ Cardinality({j \in 1..Len(calls') : calls'[j].op = "destroy"}) = 1
        /\ (mounted /\ ~mounted' /\ engineRef # 0)
              => /\ \E k \in 1..Len(calls') : calls'[k].op = "destroy"
                 /\ engines' = {} ]_vars

\* C7: the viewer was unmounted after a layout change, and the unmount destroyed the engine
C7_DestroyedAtUnmount ==
    /\ ~mounted
    /\ committed.layout # "1x1"
    /\ \E k \in 1..Len(calls) : calls[k].op = "destroy"

\* C8: at most one rendering engine is alive, and the engine the viewer holds is that one
C8_AtMostOneEngine ==
    /\ Cardinality(engines) <= 1
    /\ engineRef # 0 => engines = {engineRef} /\ registry = engineRef

\* C8: the engine effect has obtained the engine and the viewports of a layout are enabled
C8_EngineObtained ==
    /\ engineRef # 0 /\ engineCleanup
    /\ EnabledPanes # {}

\* C9: two frame-reference lists that differ in their first element or in their
\* length have different volume identities
C9_IdentityDistinct ==
    (/\ identityA # <<>>
     /\ \/ useImageIds(refsA)[1] # useImageIds(refsB)[1]
        \/ Len(useImageIds(refsA)) # Len(useImageIds(refsB)))
    => identityA # identityB

\* C10: once the volume of the current frame-reference list has been loaded, no run of
\* the load-and-assign effect invokes the loader for that list again
C10_CacheReuse ==
    \A k \in 1..Len(calls) : calls[k].op = "createAndCacheVolume" => ~calls[k].loaded

\* a step in which the load-and-assign effect starts a run on the volume path
VolumeRunStarts ==
    /\ phase = "loadEffect" /\ phase' = "idle"
    /\ "load" \in dirty /\ committed.viewportReady /\ committed.imageIds # <<>>
    /\ engineRef # 0
    /\ ~(committed.layout = "1x1" /\ committed.numberOfFrames <= 1)

\* C11: a volume load that rejects leaves volumeIdRef, the viewports and the tool
\* bindings as they were, so no pane is assigned the volume, and every later run of the
\* load-and-assign effect for the same volume id invokes the loader again
C11_LoadFailure ==
    [][ /\ (\E k \in 1..Len(calls') : calls'[k].op = "rejects")
            => /\ volumeIdRef' = volumeIdRef
               /\ viewports' = viewports
               /\ <<toolGroup', toolGroup3D', wlSync'>> = <<toolGroup, toolGroup3D, wlSync>>
        /\ ( /\ VolumeRunStarts
             /\ \E j \in 1..Len(rejected) : rejected[j] = makeVolumeId(committed.imageIds) )
            => \E k \in 1..Len(calls') :
                   /\ calls'[k].op = "createAndCacheVolume"
                   /\ calls'[k].id = makeVolumeId(committed.imageIds) ]_vars

\* the view of pane p in layout l
ViewOf(l, p) == CHOOSE v \in Range(VIEW_LAYOUTS[l]) : v.id = p

\* the panes a step enables or enables again
EnabledNow == {calls'[k].pane : k \in {j \in 1..Len(calls') : calls'[j].op = "enableElement"}}

\* C12: with a frame count of 0 or 1 the type rule gives STACK for every pane of every
\* layout, and every pane the viewport effect enables at such a frame count is a stack
\* viewport, whatever its 3D flag and orientation
C12_StackForFewFrames ==
    [][ /\ \A l \in ViewLayout : \A v \in Range(VIEW_LAYOUTS[l]) : \A n \in 0..1 :
              ViewportType(n, v) = "STACK"
        /\ committed.numberOfFrames <= 1
              => \A p \in EnabledNow : viewports'[p].type = "STACK" ]_vars

\* C12: the 3D pane of the 2x2 layout is enabled as a stack viewport at one frame
C12_StackPane3D ==
    /\ committed.layout = "2x2" /\ committed.numberOfFrames = 1
    /\ viewports["volume3D"].type = "STACK"

\* C13: with more than one frame a pane the viewport effect enables is a VOLUME_3D
\* viewport if its view has the 3D flag and an ORTHOGRAPHIC (volume) viewport
\* otherwise, with or without an orientation: the 'single' pane is ORTHOGRAPHIC too
C13_VolumeModes ==
    [][ committed.numberOfFrames > 1
          => \A p \in EnabledNow :
                 viewports'[p].type =
                     IF ViewOf(committed.layout, p).is3D THEN "VOLUME_3D"
                     ELSE "ORTHOGRAPHIC" ]_vars

\* C13: with more than one frame a pane the viewport effect enables is a VOLUME_3D
\* viewport if its view has the 3D flag, an ORTHOGRAPHIC (volume) viewport if it has an
\* orientation, and a STACK viewport if it has neither (the 'single' pane)
C13_PlainPaneIsStack ==
    [][ committed.numberOfFrames > 1
          => \A p \in EnabledNow :
                 viewports'[p].type =
                     IF ViewOf(committed.layout, p).is3D THEN "VOLUME_3D"
                     ELSE IF ViewOf(committed.layout, p).orientation # "null"
                          THEN "ORTHOGRAPHIC"
                     ELSE "STACK" ]_vars

\* C13: the 'single' pane is enabled as a volume viewport at two frames
C13_SinglePaneIsVolume ==
    /\ committed.layout = "1x1" /\ committed.numberOfFrames > 1
    /\ viewports["single"].type = "ORTHOGRAPHIC"
    /\ \E k \in 1..Len(calls) : calls[k].op = "enableElement" /\ calls[k].pane = "single"

\* C14: the type of an enabled viewport changes only by disableElement followed by
\* enableElement in one step of the viewport effect; when a run of the viewport effect
\* completes, every pane of its layout has the type the rule gives for the frame count;
\* and setStack and setVolumes are issued only on a pane that has this type already
C14_NoModeChangeInPlace ==
    [][ /\ \A p \in ViewportId :
              ( /\ viewports[p].type # "none" /\ viewports'[p].type # "none"
                /\ viewports'[p].type # viewports[p].type )
              => \E i, j \in 1..Len(calls') :
                     /\ i < j
                     /\ calls'[i].op = "disableElement" /\ calls'[i].pane = p
                     /\ calls'[j].op = "enableElement" /\ calls'[j].pane = p
        /\ ReconcileCompletes
              => \A p \in Range(layoutViewportIds(committed.layout)) :
                     viewports'[p].type =
                         ViewportType(committed.numberOfFrames, ViewOf(committed.layout, p))
        /\ \A k \in 1..Len(calls') :
              calls'[k].op \in {"setStack", "setVolumes"}
              => viewports'[calls'[k].pane].type =
                     ViewportType(committed.numberOfFrames,
                                  ViewOf(committed.layout, calls'[k].pane)) ]_vars

\* a run of the viewport effect has completed for the committed layout and frame
\* count, and the elements it enabled the panes on are the rendered ones still
Reconciled ==
    /\ mounted /\ Free /\ committed.ready /\ containerRef /\ engineRef # 0
    /\ viewportReady /\ reconcileRuns = <<>>
    /\ engineViewportIdsRef = layoutViewportIds(committed.layout)
    /\ \A p \in Range(layoutViewportIds(committed.layout)) :
          viewports[p].element = elements[p].cur

\* C15: a second run of the viewport effect's body for the layout, the frame count and
\* the elements of a completed run calls neither enableElement nor disableElement: it
\* runs through to its end without a call
C15_ReconcileIdempotent ==
    Reconciled
    => /\ ReconcileStart(ReconcileRun(committed)).status = "finished"
       /\ ReconcileStart(ReconcileRun(committed)).calls = <<>>
       /\ ReconcileStart(ReconcileRun(committed)).viewports = viewports

\* C15: a run of the viewport effect has completed for the four panes of the 2x2 layout
C15_ReconciledGrid ==
    /\ Reconciled
    /\ committed.layout = "2x2" /\ committed.numberOfFrames = 2
    /\ Range(layoutViewportIds("2x2")) \subseteq EnabledPanes

\* attachToolGroupsForLayout was called in the step
Attaches == \E k \in 1..Len(calls') : calls'[k].op = "attach"

\* the panes of layout l with the 3D flag
Panes3D(l) == {v.id : v \in {w \in Range(VIEW_LAYOUTS[l]) : w.is3D}}

\* C16: after attachToolGroupsForLayout the 2D tool group holds exactly the panes of
\* the layout without the 3D flag, the 3D tool group exactly those with it, and the
\* sources and the targets of the window-level synchronizer are exactly the layout's
\* panes, whatever was attached before
C16_AttachExact ==
    [][ Attaches
        => /\ toolGroup'.exists /\ toolGroup3D'.exists /\ wlSync'.exists
           /\ toolGroup'.viewports =
                  Range(layoutViewportIds(committed.layout)) \ Panes3D(committed.layout)
           /\ toolGroup3D'.viewports = Panes3D(committed.layout)
           /\ wlSync'.sources = Range(layoutViewportIds(committed.layout))
           /\ wlSync'.targets = Range(layoutViewportIds(committed.layout)) ]_vars

\* C16: the tools were attached to the 2x2 layout, the 3D pane to the 3D tool group
C16_AttachedGrid ==
    /\ \E k \in 1..Len(calls) : calls[k].op = "attach"
    /\ committed.layout = "2x2"
    /\ toolGroup3D.viewports = {"volume3D"}
    /\ "single" \notin BoundPanes

\* C17: after attachToolGroupsForLayout the crosshairs and the reference lines are
\* enabled if and only if the attached layout has two or more panes without the 3D
\* flag, whatever their state was before
C17_CrosshairsByLayout ==
    [][ Attaches
        => toolGroup'.crosshairs =
               (Cardinality(Range(layoutViewportIds(committed.layout))
                            \ Panes3D(committed.layout)) >= 2) ]_vars

\* C17: the tools were attached to the 1x3 layout and the crosshairs are enabled
C17_CrosshairsEnabled ==
    /\ \E k \in 1..Len(calls) : calls[k].op = "attach"
    /\ committed.layout = "1x3"
    /\ toolGroup.crosshairs

\* C18: once the viewer is unmounted, the 2D tool group, the 3D tool group and the
\* window-level synchronizer are released and none of them holds a pane
C18_TeardownReleasesAll ==
    ~mounted
    => /\ ~toolGroup.exists /\ ~toolGroup3D.exists /\ ~wlSync.exists
       /\ BoundPanes = {}

\* a step in which the resize observer is notified while every tile it observes has
\* no width or no height
ZeroNotification ==
    \E k \in 1..Len(calls') : calls'[k].op = "ResizeObserver" /\ calls'[k].id = <<>>

\* C19: a notification of the resize observer while all its tiles are of size zero
\* requests no frame and calls nothing: the frame queue, the engine, its viewports and
\* the tools are as before
C19_ZeroSizeIgnored ==
    [][ ZeroNotification
        => /\ rafQueue' = rafQueue
           /\ Len(calls') = 1
           /\ <<engines', registry', engineRef', viewports'>>
                  = <<engines, registry, engineRef, viewports>>
           /\ <<toolGroup', toolGroup3D', wlSync'>> = <<toolGroup, toolGroup3D, wlSync>> ]_vars

\* C19: the observer of a layout's tiles was notified while the tiles had no size
C19_NotifiedAtZeroSize ==
    /\ observer.exists
    /\ \E k \in 1..Len(calls) : calls[k].op = "ResizeObserver" /\ calls[k].id = <<>>

\* C20: while the viewer is mounted, a change of the geometry that leaves a tile with a
\* width and a height is eventually followed by the frame of the resize observer, which
\* calls engine.resize(false, true) and engine.render()
C20_ResizeReprojects ==
    (mounted /\ geometry = "changed") ~> (geometry = "none" \/ ~mounted)

\* the frames the resize observer requested that have not run yet
ResizeFrames == {i \in 1..Len(rafQueue) : rafQueue[i].kind = "resize"}

\* C21: however many changes of the geometry happen before an animation frame, the
\* resize observer has at most one frame requested at any time, so at most one of its
\* resize-and-render passes runs in a frame
C21_ResizeCoalesced == Cardinality(ResizeFrames) <= 1

\* C21: the one frame that is requested stands for two or more changes of the geometry
C21_ChangesMerged ==
    /\ Cardinality(ResizeFrames) = 1
    /\ \E i \in ResizeFrames : rafQueue[i].merged >= 2
\* a step in which the viewer obtains a rendering engine or enables a pane
CreatesSurface ==
    \/ engineRef' # 0 /\ engineRef' # engineRef
    \/ ~(engines' \subseteq engines)
    \/ \E k \in 1..Len(calls') : calls'[k].op = "enableElement"

\* C22: the viewer obtains a rendering engine or enables a pane only after the promise
\* of initCornerstone was fulfilled; while it is not fulfilled, and for good once it has
\* rejected, the viewer has no engine, no pane is enabled and ready is false
C22_NoSurfaceWithoutInit ==
    [][ /\ CreatesSurface => initialized = "resolved"
        /\ initialized' # "resolved"
              => /\ ~ready' /\ engineRef' = 0 /\ engines' = engines
                 /\ \A p \in ViewportId : viewports'[p].type = "none"
        /\ initialized = "rejected" => initialized' = "rejected" ]_vars

\* C22: the initialisation has rejected, the effect has run again for another access
\* token and its runs have ended, and the frames to display are there
C22_InitRejected ==
    /\ initialized = "rejected" /\ initRuns = <<>>
    /\ committed.accessToken = "t2"
    /\ containerRef
\* C23: for every layout and every frame count, setStack is issued only to a STACK
\* viewport and setVolumes only to an ORTHOGRAPHIC or VOLUME_3D viewport, and no
\* assignment of the load-and-assign effect throws
C23_AssignmentMatchesMode ==
    \A k \in 1..Len(calls) :
        /\ calls[k].op = "setStack" => viewports[calls[k].pane].type = "STACK"
        /\ calls[k].op = "setVolumes"
              => viewports[calls[k].pane].type \in {"ORTHOGRAPHIC", "VOLUME_3D"}
        /\ ~(calls[k].op = "throw" /\ calls[k].pane \in ViewportId /\ calls[k].id # <<>>)
\* C24: whenever setVolumes is issued, volumeIdRef holds the identity of the current
\* frame-reference list, whatever the order in which the loads resolve
C24_CachedIdentityCurrent ==
    \A k \in 1..Len(calls) :
        calls[k].op = "setVolumes"
        => imageIds # <<>> /\ volumeIdRef = makeVolumeId(imageIds)
\* the panes of the selected layout that are enabled and hold a volume
VolumePanes ==
    {p \in Range(layoutViewportIds(layout)) :
        viewports[p].type # "none" /\ viewports[p].volumeId # <<>>}

\* C25: in every state, also between the assignments of a run and after a run was
\* superseded within its loop, the enabled panes of the selected layout that hold a
\* volume hold volumes of one identity
C25_PanesAgree ==
    \A p, q \in VolumePanes : viewports[p].volumeId = viewports[q].volumeId
\* a step in which a superseded run of the viewport effect resumes and ends
SupersededReconcileEnds ==
    \E k \in 1..Len(reconcileRuns) :
        reconcileRuns[k].cancelled /\ reconcileRuns' = Remove(reconcileRuns, k)

\* C26: a superseded run of the viewport effect calls neither enableElement nor
\* disableElement, and the step in which it resumes leaves the viewports,
\* engineViewportIdsRef, viewportReady and the frame queue as they are; every enable
\* and disable call is made by the run that is current when it is made
C26_SingleWriter ==
    [][ /\ \A k \in 1..Len(calls') :
              calls'[k].op \in {"enableElement", "disableElement"} => ~calls'[k].cancelled
        /\ SupersededReconcileEnds
              => /\ calls' = <<>>
                 /\ viewports' = viewports
                 /\ engineViewportIdsRef' = engineViewportIdsRef
                 /\ viewportReady' = viewportReady
                 /\ rafQueue' = rafQueue
        /\ \A i, j \in 1..Len(reconcileRuns') :
              i < j => reconcileRuns'[i].cancelled ]_vars

\* C26: the run for the 1x3 layout was superseded by a run for the 1x1 layout after it
\* had enabled 'axial'; it has ended without enabling 'sagittal', the newer run is at
\* its enableElement for 'single'
C26_SupersededRunEnded ==
    /\ Len(reconcileRuns) = 1
    /\ ~reconcileRuns[1].cancelled /\ reconcileRuns[1].layout = "1x1"
    /\ viewports["single"].type # "none"
    /\ viewports["axial"].type # "none"
    /\ viewports["sagittal"].type = "none"
\* C27: render and resetCamera are called on a pane, and engine.render on the enabled
\* panes, only while the element of every pane concerned has a width and a height
C27_RenderOnlySized ==
    \A k \in 1..Len(calls) :
        calls[k].op \in {"render", "resetCamera"} => calls[k].sized
\* C28: a run of the viewport effect that reaches a pane whose element, or the grid as
\* a whole, is not in the document does not throw, and no pane is enabled on a
\* missing element
C28_ReconcileSkipsMissing ==
    /\ \A k \in 1..Len(calls) :
          ~(calls[k].op = "throw" /\ calls[k].pane \in ViewportId /\ calls[k].id = <<>>)
    /\ \A p \in ViewportId : viewports[p].type # "none" => viewports[p].element # 0
\* C29: once the viewer is unmounted and its engine destroyed, no frame callback calls
\* engine.resize or engine.render, whether the frame was requested by the resize
\* observer or by the viewport effect
C29_NoReprojectionAfterDestroy ==
    \A k \in 1..Len(calls) : calls[k].op \in {"resize", "render"} => calls[k].during
\* pane p shows the current frame-reference list: its stack, or the volume of its identity
Assigned(p) ==
    IF viewports[p].type = "STACK" THEN viewports[p].stack = imageIds
    ELSE viewports[p].volumeId = makeVolumeId(imageIds)

\* no run is in flight, viewportReady is true, every pane of the selected layout is
\* enabled and shows the current frame-reference list
Stable ==
    /\ imageIds # <<>>
    /\ initRuns = <<>> /\ reconcileRuns = <<>> /\ loadRuns = <<>>
    /\ viewportReady
    /\ \A p \in Range(layoutViewportIds(layout)) : viewports[p].type # "none" /\ Assigned(p)

\* the viewer stays mounted, cornerstone is initialised, no load has rejected, and
\* frames to show are there: a non-empty list and a frame count of at least 1
Served ==
    /\ mounted /\ initialized = "resolved" /\ rejected = <<>>
    /\ imageIds # <<>> /\ numberOfFrames >= 1

\* C30: if the initialisation succeeds, every load resolves and the external changes
\* come to an end with a non-empty frame list, the viewer reaches the stable state and
\* stays in it (the changes are bounded in the model, so they do come to an end; the
\* frame count of an empty list is taken to be 0)
C30_EventuallyStable ==
    ([](imageIds = <<>> => numberOfFrames = 0) /\ <>[]Served) => <>[]Stable

=============================================================================
